---- MODULE Spec2Model ----
(***************************************************************************)
(* Date-range arithmetic of src/lib/leaseLibrary.js: dateRangeOverlaps,    *)
(* checkAvailabibility and dateRangeSplitter.                              *)
(*                                                                         *)
(* Range objects live in a heap (reference -> {startDate, endDate}) so     *)
(* that the in-place normalisation done by dateRangeOverlaps, and two      *)
(* parameters or two list slots holding the same object, are visible.      *)
(* A field value is a record [k, t]: k is the JavaScript kind of the       *)
(* value and t its instant in milliseconds (0 when the kind has none).     *)
(***************************************************************************)
EXTENDS Integers, Sequences, FiniteSets

VARIABLES op, pc, heap, heap0, list, a, b, i, ret

vars == <<op, pc, heap, heap0, list, a, b, i, ret>>

(***************************************************************************)
(* Bounds of the model.                                                    *)
(***************************************************************************)
\* instants offered to dateRangeOverlaps / dateRangeSplitter: 0 .. MaxHalfDays half days
MaxHalfDays == 4
\* longest dateRangeArray handed to checkAvailabibility
MaxLen == 2
\* instants offered to checkAvailabibility: day 0 .. day MaxAvailDay
MaxAvailDay == 1

(***************************************************************************)
(* JavaScript values.                                                      *)
(***************************************************************************)
DAY_IN_MS == 1000 * 60 * 60 * 24

HalfDay == DAY_IN_MS \div 2

Val(k, t) == [k |-> k, t |-> t]

Undefined == Val("undefined", 0)

Null == Val("null", 0)

EmptyString == Val("empty", 0)

\* a truthy value with no instant: an unparseable string or an Invalid Date
Unparseable == Val("unparseable", 0)

NaN == Val("NaN", 0)

\* a Date object (or a date string) of instant t
DateOf(t) == Val("date", t)

\* the number t
Num(t) == Val("number", t)

Times == {n * HalfDay : n \in 0..MaxHalfDays}

FieldVals ==
  {Undefined, Null, EmptyString, Unparseable, NaN}
    \cup {DateOf(t) : t \in Times} \cup {Num(t) : t \in Times}

RangeVals == [startDate : FieldVals, endDate : FieldVals]

AvailFieldVals == {Unparseable} \cup {DateOf(d * DAY_IN_MS) : d \in 0..MaxAvailDay}

AvailRangeVals == [startDate : AvailFieldVals, endDate : AvailFieldVals]

\* !x
Falsy(x) ==
  \/ x.k \in {"undefined", "null", "empty", "NaN"}
  \/ x.k = "number" /\ x.t = 0

\* new Date(x).getTime()
getTime(x) ==
  CASE x.k = "date" -> Num(x.t)
    [] x.k = "number" -> Num(x.t)
    [] x.k = "null" -> Num(0)
    [] OTHER -> NaN

\* new Date(x)
NewDate(x) ==
  LET n == getTime(x) IN IF n.k = "NaN" THEN Unparseable ELSE DateOf(n.t)

isNaN(n) == n.k = "NaN"

\* n + d on numbers
Plus(n, d) == IF n.k = "NaN" THEN NaN ELSE Num(n.t + d)

\* the comparisons of numbers; each is false as soon as one side is NaN
Lt(x, y) == x.k = "number" /\ y.k = "number" /\ x.t < y.t

Le(x, y) == x.k = "number" /\ y.k = "number" /\ x.t <= y.t

Gt(x, y) == x.k = "number" /\ y.k = "number" /\ x.t > y.t

Ge(x, y) == x.k = "number" /\ y.k = "number" /\ x.t >= y.t

Eq(x, y) == x.k = "number" /\ y.k = "number" /\ x.t = y.t

(***************************************************************************)
(* Return values.                                                          *)
(***************************************************************************)
NoReturn == [kind |-> "none"]

BoolRet(v) == [kind |-> "boolean", v |-> v]

IndexRet(n) == [kind |-> "number", v |-> n]

ArrayRet(s) == [kind |-> "array", v |-> s]

\* what a function returns when control reaches its end with no return statement
UndefinedRet == [kind |-> "undefined"]

NullMarker == [nul |-> TRUE, startDate |-> Undefined, endDate |-> Undefined]

\* the object literal {startDate: sd, endDate: ed}
RangeLit(sd, ed) == [nul |-> FALSE, startDate |-> sd, endDate |-> ed]

(***************************************************************************)
(* dateRangeOverlaps                                                       *)
(***************************************************************************)
\* NormalizeRange with the assignment to endDate forgotten
NormalizeRange_StartOnly(r) ==
  [startDate |-> getTime(r.startDate), endDate |-> r.endDate]

\* the two assignments dateRange.startDate = ..., dateRange.endDate = ...
NormalizeRange(r) ==
  [startDate |-> getTime(r.startDate), endDate |-> getTime(r.endDate)]

\* dateRange2 starts in dateRange1
StartsIn(r1, r2) ==
  Le(r1.startDate, r2.startDate) /\ Le(r2.startDate, r1.endDate)

\* dateRange2 ends in dateRange1
EndsIn(r1, r2) ==
  Le(r1.startDate, r2.endDate) /\ Le(r2.endDate, r1.endDate)

\* Includes with the two ranges exchanged
Includes_Swapped(r1, r2) ==
  Lt(r1.startDate, r2.startDate) /\ Lt(r2.endDate, r1.endDate)

\* dateRange2 includes dateRange1
Includes(r1, r2) ==
  Lt(r2.startDate, r1.startDate) /\ Lt(r1.endDate, r2.endDate)

\* the three tests on the normalised fields
OverlapTest(r1, r2) ==
  IF StartsIn(r1, r2) THEN TRUE
  ELSE IF EndsIn(r1, r2) THEN TRUE
  ELSE IF Includes(r1, r2) THEN TRUE
  ELSE FALSE

\* the call on the objects x1 and x2 of heap h: the heap it leaves and its result
dateRangeOverlaps(h, x1, x2) ==
  LET h1 == [h EXCEPT ![x1] = NormalizeRange(h[x1])]
      h2 == [h1 EXCEPT ![x2] = NormalizeRange(h1[x2])]
  IN [heap |-> h2, ret |-> OverlapTest(h2[x1], h2[x2])]

(***************************************************************************)
(* checkAvailabibility                                                     *)
(***************************************************************************)
\* indexOf taken for lastIndexOf
indexOf_Last(l, x) ==
  IF \E j \in 1..Len(l) : l[j] = x
  THEN (CHOOSE j \in 1..Len(l) : l[j] = x /\ \A m \in (j + 1)..Len(l) : l[m] # x) - 1
  ELSE -1

\* dateRangeArray.indexOf(dr): the first slot holding the object x, from 0
indexOf(l, x) ==
  IF \E j \in 1..Len(l) : l[j] = x
  THEN (CHOOSE j \in 1..Len(l) : l[j] = x /\ \A m \in 1..(j - 1) : l[m] # x) - 1
  ELSE -1

(***************************************************************************)
(* dateRangeSplitter                                                       *)
(***************************************************************************)
\* a start or an end is missing
MissingField(S, W) ==
  \/ Falsy(S.startDate)
  \/ Falsy(S.endDate)
  \/ Falsy(W.startDate)
  \/ Falsy(W.endDate)

\* WithdrawReversed with the comparison turned round
WithdrawReversed_Flipped(W) == Lt(getTime(W.startDate), getTime(W.endDate))

\* startDate superior to endDate
WithdrawReversed(W) == Gt(getTime(W.startDate), getTime(W.endDate))

\* malformed parameters
Malformed(S, W) ==
  \/ isNaN(getTime(W.startDate))
  \/ isNaN(getTime(W.endDate))
  \/ isNaN(getTime(S.startDate))
  \/ isNaN(getTime(S.endDate))

\* one or two boundaries of dateRangeToWithdraw are outside of dateRangeToSplit
OutsideBoundaries(S, W) ==
  \/ Lt(getTime(W.startDate), getTime(S.startDate))
  \/ Gt(getTime(W.endDate), Plus(getTime(S.endDate), DAY_IN_MS))

\* Branch1 without its last case
Branch1_NoSuperset(S, W) ==
  IF /\ Lt(getTime(W.startDate), getTime(S.startDate))
     /\ Le(getTime(W.endDate), getTime(S.endDate))
  THEN ArrayRet(<<RangeLit(NewDate(Plus(getTime(W.endDate), DAY_IN_MS)),
                           NewDate(getTime(S.endDate)))>>)
  ELSE IF /\ Ge(getTime(W.startDate), getTime(S.startDate))
          /\ Le(getTime(W.startDate), getTime(S.endDate))
          /\ Gt(getTime(W.endDate), getTime(S.endDate))
  THEN ArrayRet(<<RangeLit(NewDate(getTime(S.startDate)),
                           NewDate(Plus(getTime(W.startDate), -DAY_IN_MS)))>>)
  ELSE UndefinedRet

\* branch 1
Branch1(S, W) ==
  IF /\ Lt(getTime(W.startDate), getTime(S.startDate))
     /\ Le(getTime(W.endDate), getTime(S.endDate))
  THEN ArrayRet(<<RangeLit(NewDate(Plus(getTime(W.endDate), DAY_IN_MS)),
                           NewDate(getTime(S.endDate)))>>)
  ELSE IF /\ Ge(getTime(W.startDate), getTime(S.startDate))
          /\ Le(getTime(W.startDate), getTime(S.endDate))
          /\ Gt(getTime(W.endDate), getTime(S.endDate))
  THEN ArrayRet(<<RangeLit(NewDate(getTime(S.startDate)),
                           NewDate(Plus(getTime(W.startDate), -DAY_IN_MS)))>>)
  ELSE IF /\ Lt(getTime(W.startDate), getTime(S.startDate))
          /\ Gt(getTime(W.endDate), getTime(S.endDate))
  THEN ArrayRet(<<RangeLit(NewDate(S.startDate), NewDate(S.endDate))>>)
  ELSE UndefinedRet

\* Branch2 with the test of equal starts placed before the test of equal ranges
Branch2_StartFirst(S, W) ==
  IF Eq(getTime(W.startDate), getTime(S.startDate))
  THEN ArrayRet(<<RangeLit(NewDate(Plus(getTime(W.endDate), DAY_IN_MS)),
                           NewDate(getTime(S.endDate)))>>)
  ELSE IF /\ Eq(getTime(W.startDate), getTime(S.startDate))
          /\ Eq(getTime(W.endDate), getTime(S.endDate))
  THEN ArrayRet(<<NullMarker>>)
  ELSE IF Eq(getTime(W.endDate), getTime(S.endDate))
  THEN ArrayRet(<<RangeLit(NewDate(getTime(S.startDate)),
                           NewDate(Plus(getTime(W.startDate), -DAY_IN_MS)))>>)
  ELSE ArrayRet(<<RangeLit(NewDate(S.startDate),
                           NewDate(Plus(getTime(W.startDate), -DAY_IN_MS))),
                  RangeLit(NewDate(Plus(getTime(W.endDate), DAY_IN_MS)),
                           NewDate(S.endDate))>>)

\* branch 2
Branch2(S, W) ==
  IF /\ Eq(getTime(W.startDate), getTime(S.startDate))
     /\ Eq(getTime(W.endDate), getTime(S.endDate))
  THEN ArrayRet(<<NullMarker>>)
  ELSE IF Eq(getTime(W.startDate), getTime(S.startDate))
  THEN ArrayRet(<<RangeLit(NewDate(Plus(getTime(W.endDate), DAY_IN_MS)),
                           NewDate(getTime(S.endDate)))>>)
  ELSE IF Eq(getTime(W.endDate), getTime(S.endDate))
  THEN ArrayRet(<<RangeLit(NewDate(getTime(S.startDate)),
                           NewDate(Plus(getTime(W.startDate), -DAY_IN_MS)))>>)
  ELSE ArrayRet(<<RangeLit(NewDate(S.startDate),
                           NewDate(Plus(getTime(W.startDate), -DAY_IN_MS))),
                  RangeLit(NewDate(Plus(getTime(W.endDate), DAY_IN_MS)),
                           NewDate(S.endDate))>>)

\* the call on the objects s (dateRangeToSplit) and w (dateRangeToWithdraw) of
\* heap h: the heap it leaves and its result
dateRangeSplitter(h, s, w) ==
  IF MissingField(h[s], h[w]) THEN [heap |-> h, ret |-> ArrayRet(<<>>)]
  ELSE
    LET o == dateRangeOverlaps(h, s, w)
        S == o.heap[s]
        W == o.heap[w]
    IN [heap |-> o.heap,
        ret |->
          IF ~o.ret THEN ArrayRet(<<>>)
          ELSE IF WithdrawReversed(W) THEN ArrayRet(<<>>)
          ELSE IF Malformed(S, W) THEN ArrayRet(<<>>)
          ELSE IF OutsideBoundaries(S, W) THEN Branch1(S, W)
          ELSE Branch2(S, W)]

(***************************************************************************)
(* The state machine: one call of one of the three functions, on a heap    *)
(* of range objects.  heap0 keeps the heap as it was when the call began.  *)
(***************************************************************************)
Refs == 1..(MaxLen + 1)

\* an object no parameter refers to
Unused == [startDate |-> Undefined, endDate |-> Undefined]

\* the references of <<l[1], ..., l[n], x>> are numbered in order of first use
InOrderOfUse(l, x) ==
  LET s == Append(l, x)
  IN \A j \in 1..Len(s) : \A r \in 1..(s[j] - 1) : \E m \in 1..(j - 1) : s[m] = r

Lists == UNION {[1..n -> Refs] : n \in 0..MaxLen}

InitPair(name) ==
  /\ op = name
  /\ pc = "call"
  /\ list = <<>>
  /\ i = 0
  /\ ret = NoReturn
  /\ a = 1
  /\ b \in {1, 2}
  /\ \E ra \in RangeVals, rb \in RangeVals :
       heap = [x \in Refs |-> IF x = 1 THEN ra
                              ELSE IF x = 2 /\ b = 2 THEN rb
                              ELSE Unused]
  /\ heap0 = heap

InitCheck ==
  /\ op = "checkAvailabibility"
  /\ pc = "loop"
  /\ a = 1
  /\ i = 0
  /\ ret = NoReturn
  /\ list \in Lists
  /\ b \in Refs
  /\ InOrderOfUse(list, b)
  /\ \E hv \in [Refs -> AvailRangeVals] :
       heap = [x \in Refs |-> IF x = b \/ (\E j \in 1..Len(list) : list[j] = x)
                              THEN hv[x] ELSE Unused]
  /\ heap0 = heap

Init ==
  \/ InitPair("dateRangeOverlaps")
  \/ InitPair("dateRangeSplitter")
  \/ InitCheck

\* dateRangeOverlaps(dateRange1, dateRange2), dateRange1 = a, dateRange2 = b
CallOverlaps ==
  /\ op = "dateRangeOverlaps"
  /\ pc = "call"
  /\ LET r == dateRangeOverlaps(heap, a, b)
     IN /\ heap' = r.heap
        /\ ret' = BoolRet(r.ret)
  /\ pc' = "done"
  /\ UNCHANGED <<op, heap0, list, a, b, i>>

\* dateRangeSplitter(dateRangeToSplit, dateRangeToWithdraw), = a, b
CallSplitter ==
  /\ op = "dateRangeSplitter"
  /\ pc = "call"
  /\ LET r == dateRangeSplitter(heap, a, b)
     IN /\ heap' = r.heap
        /\ ret' = r.ret
  /\ pc' = "done"
  /\ UNCHANGED <<op, heap0, list, a, b, i>>

\* one turn of checkAvailabibility's loop, on dr = list[i + 1] (slots from 0)
LoopBody ==
  /\ op = "checkAvailabibility"
  /\ pc = "loop"
  /\ i < Len(list)
  /\ LET dr == list[i + 1]
         r == dateRangeOverlaps(heap, dr, b)
     IN /\ heap' = r.heap
        /\ IF r.ret
           THEN /\ ret' = IndexRet(indexOf(list, dr))
                /\ pc' = "done"
                /\ i' = i
           ELSE /\ i' = i + 1
                /\ UNCHANGED <<ret, pc>>
  /\ UNCHANGED <<op, heap0, list, a, b>>

\* the loop has run through the array
LoopEnd ==
  /\ op = "checkAvailabibility"
  /\ pc = "loop"
  /\ i >= Len(list)
  /\ ret' = IndexRet(-1)
  /\ pc' = "done"
  /\ UNCHANGED <<op, heap, heap0, list, a, b, i>>

Next ==
  \/ CallOverlaps
  \/ CallSplitter
  \/ LoopBody
  \/ LoopEnd

Spec == Init /\ [][Next]_vars

(***************************************************************************)
(* Vocabulary of the properties.  They speak of the heap as the call found *)
(* it (heap0), of the heap as the call left it (heap) and of the result.   *)
(***************************************************************************)
OverlapsDone == op = "dateRangeOverlaps" /\ pc = "done"

SplitterDone == op = "dateRangeSplitter" /\ pc = "done"

CheckDone == op = "checkAvailabibility" /\ pc = "done"

\* the four fields the call received
Fields0 ==
  {heap0[a].startDate, heap0[a].endDate, heap0[b].startDate, heap0[b].endDate}

\* the field holds an instant
Parses(x) == getTime(x).k = "number"

\* the field is present (it passes the test on missing fields) and holds an instant
ValidField(x) == ~Falsy(x) /\ Parses(x)

\* the instants of the first range (split) and of the second (withdraw)
ss == getTime(heap0[a].startDate).t

se == getTime(heap0[a].endDate).t

ws == getTime(heap0[b].startDate).t

we == getTime(heap0[b].endDate).t

WellOrdered0 == ss <= se /\ ws <= we

DayAligned0 == \A t \in {ss, se, ws, we} : t % DAY_IN_MS = 0

\* what dateRangeOverlaps answers on the ranges as received
Overlap0 == dateRangeOverlaps(heap0, a, b).ret

\* the range object running from instant t1 to instant t2
Remain(t1, t2) == RangeLit(DateOf(t1), DateOf(t2))

IsRange(e) == e.nul = FALSE /\ e.startDate.k = "date" /\ e.endDate.k = "date"

\* valid, well-ordered ranges that overlap, handed to dateRangeSplitter
SplitterProper ==
  /\ SplitterDone
  /\ \A x \in Fields0 : ValidField(x)
  /\ WellOrdered0
  /\ Overlap0

(***************************************************************************)
(* C1: dateRangeSplitter always returns an array, and the array is [],     *)
(* [null], one range or two ranges; in particular the end of branch 1 is   *)
(* never reached without a return.                                         *)
(***************************************************************************)
C1_ClosedShapes ==
  SplitterDone =>
    /\ ret.kind = "array"
    /\ \/ ret.v = <<>>
       \/ ret.v = <<NullMarker>>
       \/ Len(ret.v) = 1 /\ IsRange(ret.v[1])
       \/ Len(ret.v) = 2 /\ IsRange(ret.v[1]) /\ IsRange(ret.v[2])

\* a reversed split engulfed by withdraw: only the last case of branch 1 takes it
C1_Witness ==
  /\ SplitterDone
  /\ \A x \in Fields0 : ValidField(x)
  /\ ws < se /\ se < ss /\ ss < we
  /\ ret = ArrayRet(<<Remain(ss, se)>>)

(***************************************************************************)
(* C2: dateRangeSplitter returns [] when a field is missing or empty, when *)
(* the ranges do not overlap, when withdraw starts after it ends, or when  *)
(* a field holds no instant.                                               *)
(***************************************************************************)
C2_FailClosed ==
  SplitterDone =>
    ((\/ \E x \in Fields0 : x.k \in {"undefined", "null", "empty"}
      \/ ~Overlap0
      \/ Gt(getTime(heap0[b].startDate), getTime(heap0[b].endDate))
      \/ \E x \in Fields0 : ~Parses(x))
     => ret = ArrayRet(<<>>))

\* a withdraw that starts after it ends and still overlaps split
C2_Witness ==
  /\ SplitterDone
  /\ \A x \in Fields0 : ValidField(x)
  /\ Overlap0
  /\ ws > we
  /\ ret = ArrayRet(<<>>)

(***************************************************************************)
(* C3: withdraw within split: [null] when both boundaries are equal, the   *)
(* part after withdraw when only the starts are equal, the part before it  *)
(* when only the ends are equal, both parts in that order otherwise.       *)
(***************************************************************************)
C3_WithinSplit ==
  (/\ SplitterDone
   /\ \A x \in Fields0 : ValidField(x)
   /\ WellOrdered0
   /\ ss <= ws
   /\ we <= se)
  => ret = ArrayRet(
       IF ws = ss /\ we = se THEN <<NullMarker>>
       ELSE IF ws = ss THEN <<Remain(we + DAY_IN_MS, se)>>
       ELSE IF we = se THEN <<Remain(ss, ws - DAY_IN_MS)>>
       ELSE <<Remain(ss, ws - DAY_IN_MS), Remain(we + DAY_IN_MS, se)>>)

\* a withdraw strictly inside split leaves two ranges
C3_Witness ==
  /\ SplitterProper
  /\ ss < ws
  /\ we < se
  /\ Len(ret.v) = 2

(***************************************************************************)
(* C4: withdraw reaching outside split leaves one range: the part after    *)
(* withdraw when it starts before split and ends in it, the part before    *)
(* withdraw when it starts in split and ends after it (by a day at most or *)
(* by more), split itself when it starts before and ends after.            *)
(***************************************************************************)
C4_OutsideSplit ==
  SplitterProper =>
    /\ (ws < ss /\ we <= se) => ret = ArrayRet(<<Remain(we + DAY_IN_MS, se)>>)
    /\ (ss <= ws /\ ws <= se /\ we > se)
         => ret = ArrayRet(<<Remain(ss, ws - DAY_IN_MS)>>)
    /\ (ws < ss /\ we > se) => ret = ArrayRet(<<Remain(ss, se)>>)

(***************************************************************************)
(* C5: the result is [null] exactly when withdraw covers the whole of      *)
(* split.                                                                  *)
(***************************************************************************)
C5_FullConsumption ==
  SplitterProper => (ret = ArrayRet(<<NullMarker>>) <=> (ws <= ss /\ we >= se))

(***************************************************************************)
(* C6: dateRangeOverlaps answers false as soon as one of the four fields   *)
(* holds no instant.                                                       *)
(***************************************************************************)
C6_FailClosed ==
  (OverlapsDone /\ \E x \in Fields0 : ~Parses(x)) => ret = BoolRet(FALSE)

(***************************************************************************)
(* C7: checkAvailabibility returns the smallest position whose range       *)
(* overlaps dateRange according to dateRangeOverlaps, and -1 when there is *)
(* none, also when an object fills several slots of the array.             *)
(***************************************************************************)
OverlapsAt0(j) == dateRangeOverlaps(heap0, list[j], b).ret

C7_FirstOverlap ==
  CheckDone =>
    /\ ret.kind = "number"
    /\ IF \E j \in 1..Len(list) : OverlapsAt0(j)
       THEN /\ ret.v + 1 \in 1..Len(list)
            /\ OverlapsAt0(ret.v + 1)
            /\ \A j \in 1..ret.v : ~OverlapsAt0(j)
       ELSE ret.v = -1

\* one object in both slots, and it overlaps
C7_Witness ==
  /\ CheckDone
  /\ Len(list) = 2
  /\ list[1] = list[2]
  /\ ret.v = 0

(***************************************************************************)
(* C8: checkAvailabibility normalises the elements it scans.               *)
(***************************************************************************)
\* the fields of r are numbers
Numeric(r) ==
  r.startDate.k \in {"number", "NaN"} /\ r.endDate.k \in {"number", "NaN"}

\* r is r0 with each field turned into its number
NormalizedFrom(r0, r) ==
  r.startDate = getTime(r0.startDate) /\ r.endDate = getTime(r0.endDate)

\* the object in slot j is also in one of the slots 0..n, or is dateRange
SharedWithScanned(j, n) ==
  list[j] = b \/ \E m \in 1..(n + 1) : list[m] = list[j]

\* C8 as stated: on a result i >= 0 the elements 0..i hold numbers and every
\* element after i is as it was; on -1 every element holds numbers; an empty
\* array leaves dateRange as it was.
C8_AsStated ==
  CheckDone =>
    /\ ret.v >= 0 =>
         /\ \A j \in 1..(ret.v + 1) : Numeric(heap[list[j]])
         /\ \A j \in (ret.v + 2)..Len(list) : heap[list[j]] = heap0[list[j]]
    /\ ret.v = -1 => \A j \in 1..Len(list) : Numeric(heap[list[j]])
    /\ list = <<>> => heap[b] = heap0[b]

\* C8 as amended: on a result i >= 0 the elements 0..i hold the numbers of
\* their fields (NaN for a field with no instant) and every element after i
\* that is neither an object of the slots 0..i nor dateRange itself is as it
\* was; on -1 every element holds the numbers of its fields; an empty array
\* leaves the whole heap, dateRange included, as it was.
C8_ScannedNormalized ==
  CheckDone =>
    /\ ret.v >= 0 =>
         /\ \A j \in 1..(ret.v + 1) : NormalizedFrom(heap0[list[j]], heap[list[j]])
         /\ \A j \in (ret.v + 2)..Len(list) :
              ~SharedWithScanned(j, ret.v) => heap[list[j]] = heap0[list[j]]
    /\ ret.v = -1 =>
         \A j \in 1..Len(list) : NormalizedFrom(heap0[list[j]], heap[list[j]])
    /\ list = <<>> => heap = heap0

\* a match in slot 0 leaves the object of its own in slot 1 with its Date fields
C8_Witness ==
  /\ CheckDone
  /\ Len(list) = 2
  /\ ret.v = 0
  /\ ~SharedWithScanned(2, 0)
  /\ heap[list[2]].startDate.k = "date"
  /\ heap[list[1]].startDate.k = "number"

(***************************************************************************)
(* C9: each range dateRangeSplitter returns for valid, well-ordered,       *)
(* day-aligned, overlapping ranges lies within split, is well-ordered and  *)
(* shares no day with withdraw; of two ranges the first ends before the    *)
(* second starts.                                                          *)
(***************************************************************************)
C9_RealRemainder ==
  (SplitterProper /\ DayAligned0) =>
    /\ ret.kind = "array"
    /\ \A n \in 1..Len(ret.v) :
         ~ret.v[n].nul =>
           LET rs == ret.v[n].startDate.t
               re == ret.v[n].endDate.t
           IN /\ ss <= rs /\ rs <= re /\ re <= se
              /\ (re < ws \/ rs > we)
    /\ Len(ret.v) = 2 => ret.v[1].endDate.t < ret.v[2].startDate.t

(***************************************************************************)
(* C10: on fields that hold instants and ranges that are well-ordered,     *)
(* dateRangeOverlaps answers the same in both orders of its parameters,    *)
(* and answers whether the two closed intervals meet.                      *)
(***************************************************************************)
C10_Symmetric ==
  (/\ OverlapsDone
   /\ \A x \in Fields0 : Parses(x)
   /\ WellOrdered0)
  => /\ ret = BoolRet(ss <= we /\ ws <= se)
     /\ dateRangeOverlaps(heap0, b, a).ret = ret.v

\* the second range strictly includes the first
C10_Witness ==
  /\ OverlapsDone
  /\ \A x \in Fields0 : Parses(x)
  /\ WellOrdered0
  /\ ws < ss
  /\ se < we
  /\ ret = BoolRet(TRUE)

====
